---- MODULE Spec2Model ----
(***************************************************************************)
(* Model of the smoital crate: the two SmonthSchedule variants             *)
(* (EquatorialSchedule, HeuristicSchedule), SmoitalDate and SmoitalYear.   *)
(*                                                                         *)
(* Numbers.  FixedOffset is modelled by its local_minus_utc() value, in    *)
(* seconds east of UTC.  The f64 values of HeuristicSchedule are modelled  *)
(* exactly: natural_tz_min is an integer number of minutes, so             *)
(* raw_start = natural_tz_min + 85/60 is a whole number of twelfths of a   *)
(* minute (12*natural_tz_min + 17), raw_start/40 a whole number of 480ths, *)
(* and C2 + smoitus_factor*C3 a whole number of 48000ths.  No value of     *)
(* this form lies on a rounding tie, an integer boundary of fract() or of  *)
(* floor(), so the f64 results are the exact ones.                         *)
(***************************************************************************)
EXTENDS Integers, Sequences, FiniteSets

VARIABLES
    schedule,   \* SmoitalYear.schedule: the bound SmonthSchedule instance
    year,       \* SmoitalYear.year
    input,      \* the argument of the call under way
    pc,         \* position of the call: "ready", a loop label, "done", "panic"
    op,         \* the operation that was called
    result,     \* the value the call returned
    queried,    \* the trait methods of the schedule the call invoked
    current_day_sum, smonth_idx,  \* locals of EquatorialSchedule::get_timezone_offset
    t,          \* local of wrap_24hr
    stage,      \* which wrap_24hr call of HeuristicSchedule::get_timezone_offset runs
    rules,      \* generate_year_rules: the rules pushed so far
    new_first_long_smonth, new_n, new_smol_dates
                \* HeuristicSchedule::new: first_long_smonth, n, smol_dates

vars == <<schedule, year, input, pc, op, result, queried,
          current_day_sum, smonth_idx, t, stage,
          rules, new_first_long_smonth, new_n, new_smol_dates>>

---------------------------------------------------------------------------
(* Bounds of the model and constants of the program *)

\* constants.rs
C1_SECONDS == 85
\* C2 = 4.51 and C3 = 1.54, in hundredths
C2_HUNDREDTHS == 451
C3_HUNDREDTHS == 154

\* iana.rs: days_in_year
DaysInYear == 668

\* the year of the SmoitalYear / HeuristicSchedule under test
TestYear == 2030

\* HeuristicSchedule::new, run step by step, is given every whole
\* natural_tz_min of -MaxNaturalTz..MaxNaturalTz
MaxNaturalTz == 1500

\* largest smonth index and day-of-smonth of the dates and indices tried
MaxSmonth == 20
MaxDay == 40

\* natural_tz_min values tried (minutes): they give first_long_smonth 2..6,
\* and start offsets that wrap_24hr must wrap in either direction
NaturalTzSet == {-1500, -725, -61, -40, -22, 0, 18, 19, 730, 1500}

DateYears == {TestYear - 1, TestYear}

\* Integer widths.  Every u32 and i32 value of a call stays far inside its
\* type for the arguments modelled (day indices below DaysInYear + 1, smonth
\* indices up to MaxSmonth + 1, sums below 37 * (MaxSmonth + 2), offsets of
\* at most 86400 seconds), so additions and multiplications are the
\* mathematical ones.  The one operation that could leave its type is the
\* u32 subtraction at schedule.rs line 88, modelled in EquatorialOffsetAt.

---------------------------------------------------------------------------
(* chrono::FixedOffset and Option *)

None == [some |-> FALSE, val |-> 0]
Some(v) == [some |-> TRUE, val |-> v]

\* FixedOffset::east_opt(secs): None unless -86400 < secs < 86400
east_opt(secs) ==
    IF -86400 < secs /\ secs < 86400 THEN Some(secs) ELSE None

\* FixedOffset::west_opt(secs): None unless -86400 < secs < 86400
west_opt(secs) ==
    IF -86400 < secs /\ secs < 86400 THEN Some(-secs) ELSE None

\* a FixedOffset value, by its local_minus_utc() seconds
Offset(secs) == [panic |-> FALSE, secs |-> secs]

\* the outcome of a call that panicked instead of returning
Panicked == [panic |-> TRUE, secs |-> 0]

\* Option<FixedOffset>::unwrap: the value, or a panic
unwrap(o) == IF o.some THEN Offset(o.val) ELSE Panicked

---------------------------------------------------------------------------
(* schedule.rs: EquatorialSchedule *)

EquatorialDefault ==
    [kind |-> "Equatorial",
     first_long_smonth_index |-> 6,
     long_smonth_offsets |-> <<0, 1, 3, 4, 6, 8, 10>>,
     natural_tz_start |-> 0,
     smol_dates |-> <<>>]

Contains(seq, x) == \E i \in 1..Len(seq) : seq[i] = x

\* Equatorial_is_smol_smonth with <= for < in the early return
Equatorial_is_smol_smonth_Late(self, smonth_index) ==
    IF smonth_index <= self.first_long_smonth_index
    THEN FALSE
    ELSE Contains(self.long_smonth_offsets,
                  smonth_index - self.first_long_smonth_index)

Equatorial_is_smol_smonth(self, smonth_index) ==
    IF smonth_index < self.first_long_smonth_index
    THEN FALSE
    ELSE Contains(self.long_smonth_offsets,
                  smonth_index - self.first_long_smonth_index)

\* HeuristicSchedule::is_smol_smonth
Heuristic_is_smol_smonth(self, smonth_index) == FALSE

is_smol_smonth(self, smonth_index) ==
    IF self.kind = "Equatorial"
    THEN Equatorial_is_smol_smonth(self, smonth_index)
    ELSE Heuristic_is_smol_smonth(self, smonth_index)

\* SmonthSchedule::get_smonth_length (default method)
get_smonth_length(self, smonth_index) ==
    IF is_smol_smonth(self, smonth_index) THEN 37 ELSE 36

\* the while loop of EquatorialSchedule::get_timezone_offset:
\* <<current_day_sum, smonth_idx>> when the loop exits
LocateCond(self, day_of_year, sum, idx) ==
    sum + get_smonth_length(self, idx) <= day_of_year

RECURSIVE LocateSmonth(_, _, _, _)
LocateSmonth(self, day_of_year, sum, idx) ==
    IF LocateCond(self, day_of_year, sum, idx)
    THEN LocateSmonth(self, day_of_year,
                      sum + get_smonth_length(self, idx), idx + 1)
    ELSE <<sum, idx>>

\* EquatorialOffsetAt with the day of the smonth left 0-based (the + 1 of
\* line 88 forgotten)
EquatorialOffsetAt_ZeroBased(self, day_of_year, sum, idx) ==
    LET day_of_smonth == day_of_year - sum
        is_long_month == get_smonth_length(self, idx) = 37
    IN  IF is_long_month /\ day_of_smonth = 37
        THEN unwrap(west_opt(12 * 3600))
        ELSE LET offset_minutes == 760 - (40 * day_of_smonth)
             IN  unwrap(east_opt(offset_minutes * 60))

\* steps 2 and 3 of EquatorialSchedule::get_timezone_offset, after the loop.
\* Were sum > day_of_year, the wrapped u32 day_of_smonth cast `as i32` is the
\* signed difference written here (and is never 37).
EquatorialOffsetAt(self, day_of_year, sum, idx) ==
    LET day_of_smonth == day_of_year - sum + 1
        is_long_month == get_smonth_length(self, idx) = 37
    IN  IF is_long_month /\ day_of_smonth = 37
        THEN unwrap(west_opt(12 * 3600))
        ELSE LET offset_minutes == 760 - (40 * day_of_smonth)
             IN  unwrap(east_opt(offset_minutes * 60))

Equatorial_get_timezone_offset(self, day_of_year) ==
    LET at == LocateSmonth(self, day_of_year, 0, 0)
    IN  EquatorialOffsetAt(self, day_of_year, at[1], at[2])

---------------------------------------------------------------------------
(* schedule.rs: HeuristicSchedule *)

\* f64::round of num/den (den > 0): nearest integer, ties away from zero
RoundDiv(num, den) ==
    IF num >= 0 THEN (2 * num + den) \div (2 * den)
    ELSE -((2 * (-num) + den) \div (2 * den))

\* FractNum as the fractional part x - floor(x), never negative
FractNum_Floor(num, den) == num % den

\* numerator of f64::fract of num/den (den > 0): keeps the sign of num
FractNum(num, den) ==
    IF num >= 0 THEN num % den ELSE -((-num) % den)

\* raw_start = natural_tz_min + C1_SECONDS/60, in twelfths of a minute
RawStart12(natural_tz_min) == 12 * natural_tz_min + (C1_SECONDS * 12) \div 60

\* round_40min(tz), tz given in twelfths of a minute; the result in minutes
round_40min(tz12) == RoundDiv(tz12, 40 * 12) * 40

\* wrap_24hr(tz), in minutes: the two while loops
\* WrapUpCond with < for <=
WrapUpCond_Strict(x) == x < -720
WrapUpCond(x) == x <= -720
WrapDownCond(x) == x > 720
RECURSIVE WrapUp(_)
WrapUp(x) == IF WrapUpCond(x) THEN WrapUp(x + 1440) ELSE x
RECURSIVE WrapDown(_)
WrapDown(x) == IF WrapDownCond(x) THEN WrapDown(x - 1440) ELSE x
wrap_24hr(tz) == WrapDown(WrapUp(tz))

\* smoitus_factor = ((raw_start / 40.0) + 0.5).fract(), in 480ths
SmoitusFactor480(natural_tz_min) ==
    FractNum(RawStart12(natural_tz_min) + 240, 480)

\* first_long_smonth = floor(C2 + smoitus_factor * C3 + 0.0 / C4)
FirstLongSmonth(natural_tz_min) ==
    (C2_HUNDREDTHS * 480 + SmoitusFactor480(natural_tz_min) * C3_HUNDREDTHS)
        \div 48000

spacings == <<1, 2, 4, 5, 7, 9, 11>>
smol_days_in_year == 6

\* SmolDatesFrom without the "+ n" of line 149
RECURSIVE SmolDatesFrom_NoShift(_, _)
SmolDatesFrom_NoShift(first_long_smonth, n) ==
    IF n >= smol_days_in_year THEN <<>>
    ELSE LET rest == SmolDatesFrom_NoShift(first_long_smonth, n + 1)
         IN  IF n < Len(spacings)
             THEN LET date_idx == 36 * (first_long_smonth + spacings[n + 1])
                  IN  IF date_idx >= 0 THEN <<date_idx>> \o rest ELSE rest
             ELSE rest

\* the for loop of HeuristicSchedule::new: the dates pushed for n..5
RECURSIVE SmolDatesFrom(_, _)
SmolDatesFrom(first_long_smonth, n) ==
    IF n >= smol_days_in_year THEN <<>>
    ELSE LET rest == SmolDatesFrom(first_long_smonth, n + 1)
         IN  IF n < Len(spacings)
             THEN LET date_idx == 36 * (first_long_smonth + spacings[n + 1]) + n
                  IN  IF date_idx >= 0 THEN <<date_idx>> \o rest ELSE rest
             ELSE rest

HeuristicNew(_year, natural_tz_min) ==
    [kind |-> "Heuristic",
     first_long_smonth_index |-> 0,
     long_smonth_offsets |-> <<>>,
     natural_tz_start |-> natural_tz_min,
     smol_dates |-> SmolDatesFrom(FirstLongSmonth(natural_tz_min), 0)]

\* smol_dates.iter().filter(|d| d < day_of_year).count()
SmolCount(self, day_of_year) ==
    Cardinality({i \in 1..Len(self.smol_dates) : self.smol_dates[i] < day_of_year})

StartOffset(self) == wrap_24hr(round_40min(RawStart12(self.natural_tz_start)))

\* Adjustment without the Smol days taken off (40 * d)
Adjustment_NoSmol(self, day_of_year) == 40 * day_of_year

Adjustment(self, day_of_year) == 40 * (day_of_year - SmolCount(self, day_of_year))

\* HeuristicOffsetOf taking the minutes for hours (* 3600 for * 60)
HeuristicOffsetOf_Hours(offset) == unwrap(east_opt(offset * 3600))

\* FixedOffset::east_opt((offset * 60.0) as i32).unwrap()
HeuristicOffsetOf(offset) == unwrap(east_opt(offset * 60))

Heuristic_get_timezone_offset(self, day_of_year) ==
    IF Contains(self.smol_dates, day_of_year)
    THEN unwrap(west_opt(12 * 3600))
    ELSE LET offset == wrap_24hr(StartOffset(self) - Adjustment(self, day_of_year))
         IN  HeuristicOffsetOf(offset)

get_timezone_offset(self, day_of_year) ==
    IF self.kind = "Equatorial"
    THEN Equatorial_get_timezone_offset(self, day_of_year)
    ELSE Heuristic_get_timezone_offset(self, day_of_year)

---------------------------------------------------------------------------
(* date.rs: SmoitalDate *)

SmoitalDate(y, smonth, day) == [year |-> y, smonth |-> smonth, day |-> day]

\* calculate_offset with 720 for 760
calculate_offset_From720(date) ==
    LET d == date.day
        offset_min == 720 - (40 * d)
    IN  unwrap(east_opt(offset_min * 60))

calculate_offset(date) ==
    LET d == date.day
        offset_min == 760 - (40 * d)
    IN  unwrap(east_opt(offset_min * 60))

is_smol_day(date) == date.day = 37

---------------------------------------------------------------------------
(* year.rs: SmoitalYear, a record [year, schedule] *)

SmoitalYearNew(y, s) == [year |-> y, schedule |-> s]

timezone_offset_for_day(self, day_of_year) ==
    get_timezone_offset(self.schedule, day_of_year)

\* the for loop of day_of_year: day_index after smonths from..to-1
RECURSIVE SumSmonthLengths(_, _, _, _)
SumSmonthLengths(s, from, to, day_index) ==
    IF from >= to THEN day_index
    ELSE SumSmonthLengths(s, from + 1, to,
                          day_index + get_smonth_length(s, from))

\* day_of_year with >= for > in the test of line 47
day_of_year_OffByOne(self, date) ==
    IF date.year # self.year \/ date.day = 0
    THEN None
    ELSE LET day_index == SumSmonthLengths(self.schedule, 0, date.smonth, 0)
             smonth_len == get_smonth_length(self.schedule, date.smonth)
         IN  IF date.day >= smonth_len
             THEN None
             ELSE Some(day_index + (date.day - 1))

day_of_year(self, date) ==
    IF date.year # self.year \/ date.day = 0
    THEN None
    ELSE LET day_index == SumSmonthLengths(self.schedule, 0, date.smonth, 0)
             smonth_len == get_smonth_length(self.schedule, date.smonth)
         IN  IF date.day > smonth_len
             THEN None
             ELSE Some(day_index + (date.day - 1))

\* DateFromDayLoop with <= for < in the test of line 61
RECURSIVE DateFromDayLoop_Inclusive(_, _, _)
DateFromDayLoop_Inclusive(self, remaining, idx) ==
    LET smonth_len == get_smonth_length(self.schedule, idx)
    IN  IF remaining <= smonth_len
        THEN SmoitalDate(self.year, idx, remaining + 1)
        ELSE DateFromDayLoop_Inclusive(self, remaining - smonth_len, idx + 1)

\* the loop of date_from_day
RECURSIVE DateFromDayLoop(_, _, _)
DateFromDayLoop(self, remaining, idx) ==
    LET smonth_len == get_smonth_length(self.schedule, idx)
    IN  IF remaining < smonth_len
        THEN SmoitalDate(self.year, idx, remaining + 1)
        ELSE DateFromDayLoop(self, remaining - smonth_len, idx + 1)

date_from_day(self, d) == DateFromDayLoop(self, d, 0)

\* timezone_offset_for_date with unwrap_or(0) for map: a rejected date
\* queries the schedule at index 0
timezone_offset_for_date_Unchecked(self, date) ==
    LET day == day_of_year(self, date)
    IN  Some(timezone_offset_for_day(self, IF day.some THEN day.val ELSE 0))

\* Option::map over day_of_year
timezone_offset_for_date(self, date) ==
    LET day == day_of_year(self, date)
    IN  IF day.some THEN Some(timezone_offset_for_day(self, day.val)) ELSE None

---------------------------------------------------------------------------
(* The calls.  A state holds one SmoitalYear (year, schedule), the argument *)
(* of one call and, once the call has run, what it returned.               *)

Self == SmoitalYearNew(year, schedule)

NoDate == SmoitalDate(0, 0, 0)

DayInput(d) == [tag |-> "day", d |-> d, date |-> NoDate]
SmonthInput(idx) == [tag |-> "smonth", d |-> idx, date |-> NoDate]
DateInput(date) == [tag |-> "date", d |-> 0, date |-> date]

Inputs ==
    {DayInput(d) : d \in 0..(DaysInYear - 1)}
    \cup {SmonthInput(idx) : idx \in 0..MaxSmonth}
    \cup {DateInput(SmoitalDate(y, m, d)) :
              y \in DateYears, m \in 0..MaxSmonth, d \in 0..MaxDay}

Schedules ==
    {EquatorialDefault} \cup {HeuristicNew(TestYear, n) : n \in NaturalTzSet}

Init ==
    /\ schedule \in Schedules
    /\ year = TestYear
    /\ input \in Inputs
    /\ pc = "ready"
    /\ op = "none"
    /\ result = None
    /\ queried = {}
    /\ current_day_sum = 0
    /\ smonth_idx = 0
    /\ t = 0
    /\ stage = 0
    /\ rules = <<>>
    /\ new_first_long_smonth = 0
    /\ new_n = 0
    /\ new_smol_dates = <<>>

locals == <<current_day_sum, smonth_idx, t, stage>>

\* the locals of generate_year_rules and of HeuristicSchedule::new
outside == <<rules, new_first_long_smonth, new_n, new_smol_dates>>

\* a call that runs in one step: it returns r having invoked the methods q
Return(name, r, q) ==
    /\ op' = name
    /\ result' = r
    /\ queried' = q
    /\ pc' = "done"
    /\ UNCHANGED outside
    /\ UNCHANGED <<schedule, year, input, locals>>

Call_is_smol_smonth ==
    /\ pc = "ready" /\ input.tag = "smonth"
    /\ Return("is_smol_smonth", is_smol_smonth(schedule, input.d),
              {"is_smol_smonth"})

Call_get_smonth_length ==
    /\ pc = "ready" /\ input.tag = "smonth"
    /\ Return("get_smonth_length", get_smonth_length(schedule, input.d),
              {"get_smonth_length", "is_smol_smonth"})

Call_calculate_offset ==
    /\ pc = "ready" /\ input.tag = "date"
    /\ Return("calculate_offset", calculate_offset(input.date), {})

Call_is_smol_day ==
    /\ pc = "ready" /\ input.tag = "date"
    /\ Return("is_smol_day", is_smol_day(input.date), {})

Call_timezone_offset_for_day ==
    /\ pc = "ready" /\ input.tag = "day"
    /\ Return("timezone_offset_for_day", timezone_offset_for_day(Self, input.d),
              {"get_timezone_offset"})

Call_date_from_day ==
    /\ pc = "ready" /\ input.tag = "day"
    /\ Return("date_from_day", date_from_day(Self, input.d),
              {"get_smonth_length", "is_smol_smonth"})

\* the schedule methods day_of_year invokes: none when it returns at line 38
DayOfYearQueries(self, date) ==
    IF date.year # self.year \/ date.day = 0
    THEN {}
    ELSE {"get_smonth_length", "is_smol_smonth"}

Call_day_of_year ==
    /\ pc = "ready" /\ input.tag = "date"
    /\ Return("day_of_year", day_of_year(Self, input.date),
              DayOfYearQueries(Self, input.date))

\* the schedule methods timezone_offset_for_date invokes
OffsetForDateQueries(self, date) ==
    DayOfYearQueries(self, date)
    \cup (IF day_of_year(self, date).some THEN {"get_timezone_offset"} ELSE {})

Call_timezone_offset_for_date ==
    /\ pc = "ready" /\ input.tag = "date"
    /\ Return("timezone_offset_for_date",
              timezone_offset_for_date(Self, input.date),
              OffsetForDateQueries(Self, input.date))

---------------------------------------------------------------------------
(* SmonthSchedule::get_timezone_offset called on the schedule, run loop     *)
(* iteration by loop iteration.                                            *)

Begin(next) ==
    /\ op' = "get_timezone_offset"
    /\ queried' = {"get_timezone_offset"}
    /\ pc' = next

Finish(r) ==
    /\ result' = r
    /\ pc' = IF r.panic THEN "panic" ELSE "done"

\* EquatorialSchedule::get_timezone_offset, lines 78-79
Eq_begin ==
    /\ pc = "ready" /\ input.tag = "day" /\ schedule.kind = "Equatorial"
    /\ Begin("eq_scan")
    /\ current_day_sum' = 0
    /\ smonth_idx' = 0
    /\ UNCHANGED outside
    /\ UNCHANGED <<schedule, year, input, result, t, stage>>

\* one iteration of the while loop, lines 82-85
Eq_scan ==
    /\ pc = "eq_scan"
    /\ LocateCond(schedule, input.d, current_day_sum, smonth_idx)
    /\ current_day_sum' = current_day_sum + get_smonth_length(schedule, smonth_idx)
    /\ smonth_idx' = smonth_idx + 1
    /\ UNCHANGED outside
    /\ UNCHANGED <<schedule, year, input, pc, op, result, queried, t, stage>>

\* the loop exits; lines 88-102.  The u32 subtraction of line 88 panics on
\* underflow when overflow checks are compiled in and wraps otherwise.
Eq_finish ==
    /\ pc = "eq_scan"
    /\ ~LocateCond(schedule, input.d, current_day_sum, smonth_idx)
    /\ \E overflow_checks \in BOOLEAN :
          IF overflow_checks /\ current_day_sum > input.d
          THEN Finish(Panicked)
          ELSE Finish(EquatorialOffsetAt(schedule, input.d,
                                         current_day_sum, smonth_idx))
    /\ UNCHANGED outside
    /\ UNCHANGED <<schedule, year, input, op, queried, locals>>

\* HeuristicSchedule::get_timezone_offset, lines 188-198: a Smol day returns
\* at once, any other day starts wrap_24hr(round_40min(...))
He_begin ==
    /\ pc = "ready" /\ input.tag = "day" /\ schedule.kind = "Heuristic"
    /\ op' = "get_timezone_offset"
    /\ queried' = {"get_timezone_offset"}
    /\ IF Contains(schedule.smol_dates, input.d)
       THEN /\ Finish(unwrap(west_opt(12 * 3600)))
            /\ UNCHANGED <<t, stage>>
       ELSE /\ t' = round_40min(RawStart12(schedule.natural_tz_start))
            /\ stage' = 1
            /\ pc' = "wrap_up"
            /\ UNCHANGED result
    /\ UNCHANGED outside
    /\ UNCHANGED <<schedule, year, input, current_day_sum, smonth_idx>>

\* wrap_24hr, lines 168-170: one iteration of the first loop
Wrap_up ==
    /\ pc = "wrap_up" /\ WrapUpCond(t)
    /\ t' = t + 1440
    /\ UNCHANGED outside
    /\ UNCHANGED <<schedule, year, input, pc, op, result, queried,
                   current_day_sum, smonth_idx, stage>>

Wrap_up_exit ==
    /\ pc = "wrap_up" /\ ~WrapUpCond(t)
    /\ pc' = "wrap_down"
    /\ UNCHANGED outside
    /\ UNCHANGED <<schedule, year, input, op, result, queried, locals>>

\* wrap_24hr, lines 171-173: one iteration of the second loop
Wrap_down ==
    /\ pc = "wrap_down" /\ WrapDownCond(t)
    /\ t' = t - 1440
    /\ UNCHANGED outside
    /\ UNCHANGED <<schedule, year, input, pc, op, result, queried,
                   current_day_sum, smonth_idx, stage>>

\* the first wrap_24hr returns start_offset; lines 199-201 start the second
He_adjust ==
    /\ pc = "wrap_down" /\ ~WrapDownCond(t) /\ stage = 1
    /\ t' = t - Adjustment(schedule, input.d)
    /\ stage' = 2
    /\ pc' = "wrap_up"
    /\ UNCHANGED outside
    /\ UNCHANGED <<schedule, year, input, op, result, queried,
                   current_day_sum, smonth_idx>>

\* the second wrap_24hr returns offset; line 203
He_finish ==
    /\ pc = "wrap_down" /\ ~WrapDownCond(t) /\ stage = 2
    /\ Finish(HeuristicOffsetOf(t))
    /\ UNCHANGED outside
    /\ UNCHANGED <<schedule, year, input, op, queried, locals>>

\* get_timezone_offset, step by step
Run ==
    \/ Eq_begin
    \/ Eq_scan
    \/ Eq_finish
    \/ He_begin
    \/ Wrap_up
    \/ Wrap_up_exit
    \/ Wrap_down
    \/ He_adjust
    \/ He_finish

Next ==
    \/ Call_is_smol_smonth
    \/ Call_get_smonth_length
    \/ Call_calculate_offset
    \/ Call_is_smol_day
    \/ Call_timezone_offset_for_day
    \/ Call_date_from_day
    \/ Call_day_of_year
    \/ Call_timezone_offset_for_date
    \/ Run

Spec == Init /\ [][Next]_vars

\* get_timezone_offset alone, called on a day index: the call is sequential
\* code, so every step that can be taken is taken
InitRun == Init /\ input.tag = "day"

FairSpec == InitRun /\ [][Run]_vars /\ WF_vars(Run)

---------------------------------------------------------------------------
(* HeuristicSchedule::new, one iteration of its for loop per step *)

NaturalTzInput(natural_tz_min) ==
    [tag |-> "natural_tz", d |-> natural_tz_min, date |-> NoDate]

\* no schedule is bound before the constructor returns
Unbuilt ==
    [kind |-> "none",
     first_long_smonth_index |-> 0,
     long_smonth_offsets |-> <<>>,
     natural_tz_start |-> 0,
     smol_dates |-> <<>>]

\* line 149
DateIdx(first_long_smonth, s_month_offset, k) ==
    36 * (first_long_smonth + s_month_offset) + k

\* lines 118-141
New_begin ==
    /\ pc = "ready" /\ input.tag = "natural_tz"
    /\ op' = "new"
    /\ new_first_long_smonth' = FirstLongSmonth(input.d)
    /\ new_n' = 0
    /\ new_smol_dates' = <<>>
    /\ pc' = "new_loop"
    /\ UNCHANGED <<schedule, year, input, result, queried, locals, rules>>

\* lines 143-154: one iteration
New_push ==
    /\ pc = "new_loop"
    /\ new_n < smol_days_in_year
    /\ LET spacing_idx == new_n
       IN  IF spacing_idx < Len(spacings)
           THEN LET date_idx == DateIdx(new_first_long_smonth,
                                        spacings[spacing_idx + 1], new_n)
                IN  IF date_idx >= 0
                    THEN new_smol_dates' = Append(new_smol_dates, date_idx)
                    ELSE UNCHANGED new_smol_dates
           ELSE UNCHANGED new_smol_dates
    /\ new_n' = new_n + 1
    /\ UNCHANGED <<schedule, year, input, pc, op, result, queried, locals,
                   rules, new_first_long_smonth>>

\* lines 156-159
New_finish ==
    /\ pc = "new_loop"
    /\ new_n >= smol_days_in_year
    /\ schedule' = [kind |-> "Heuristic",
                    first_long_smonth_index |-> 0,
                    long_smonth_offsets |-> <<>>,
                    natural_tz_start |-> input.d,
                    smol_dates |-> new_smol_dates]
    /\ pc' = "done"
    /\ UNCHANGED <<year, input, op, result, queried, locals, outside>>

New == New_begin \/ New_push \/ New_finish

InitNew ==
    /\ schedule = Unbuilt
    /\ year = TestYear
    /\ input \in {NaturalTzInput(k) : k \in (-MaxNaturalTz)..MaxNaturalTz}
    /\ pc = "ready"
    /\ op = "none"
    /\ result = None
    /\ queried = {}
    /\ current_day_sum = 0
    /\ smonth_idx = 0
    /\ t = 0
    /\ stage = 0
    /\ rules = <<>>
    /\ new_first_long_smonth = 0
    /\ new_n = 0
    /\ new_smol_dates = <<>>

NewSpec == InitNew /\ [][New]_vars

---------------------------------------------------------------------------
(* iana.rs: generate_year_rules, one iteration of its for loop per step.   *)
(* The function takes a HeuristicSchedule; over an EquatorialSchedule the  *)
(* same walk is the sequence of get_timezone_offset(d) calls, d = 0, 1,    *)
(* ..., a caller of the trait makes.                                       *)

\* i32 division: truncates toward zero
TruncDiv(a, b) == IF a >= 0 THEN a \div b ELSE -((-a) \div b)

\* format!("Rule {} Smoital only Day{} 24:00 {}", year, d, off_min): the
\* three values the text of a rule carries
Rule(y, d, off_min) == [year |-> y, day |-> d, off_min |-> off_min]

Gen_begin ==
    /\ pc = "ready"
    /\ op' = "generate_year_rules"
    /\ rules' = <<>>
    /\ pc' = "rules"
    /\ UNCHANGED <<schedule, year, input, result, queried, locals,
                   new_first_long_smonth, new_n, new_smol_dates>>

Gen_step ==
    /\ pc = "rules"
    /\ Len(rules) < DaysInYear
    /\ LET d == Len(rules)
           offset == get_timezone_offset(schedule, d)
       IN  IF offset.panic
           THEN pc' = "panic" /\ UNCHANGED rules
           ELSE /\ rules' = Append(rules, Rule(year, d, TruncDiv(offset.secs, 60)))
                /\ UNCHANGED pc
    /\ queried' = queried \cup {"get_timezone_offset"}
    /\ UNCHANGED <<schedule, year, input, op, result, locals,
                   new_first_long_smonth, new_n, new_smol_dates>>

Gen_end ==
    /\ pc = "rules"
    /\ Len(rules) >= DaysInYear
    /\ pc' = "done"
    /\ UNCHANGED <<schedule, year, input, op, result, queried, locals, outside>>

Table == Gen_begin \/ Gen_step \/ Gen_end

InitTable == Init /\ input = DayInput(0)

TableSpec == InitTable /\ [][Table]_vars

---------------------------------------------------------------------------
(* Claims *)

Abs(x) == IF x < 0 THEN -x ELSE x

Returned(name) == op = name /\ pc = "done"

Minutes(m) == Offset(m * 60)

\* the day index on which smonth m starts: the lengths of smonths 0..m-1
RECURSIVE StartOfSmonth(_, _)
StartOfSmonth(s, m) ==
    IF m = 0 THEN 0 ELSE StartOfSmonth(s, m - 1) + get_smonth_length(s, m - 1)

\* the smonth containing day index d
SmonthOf(s, d) ==
    CHOOSE m \in 0..d :
        StartOfSmonth(s, m) <= d /\ d < StartOfSmonth(s, m + 1)

\* C1: EquatorialSchedule.get_timezone_offset(d), d in [0, 667], is -720
\* minutes when d is day 37 of a 37-day smonth and 760 - 40*D minutes
\* otherwise, D the 1-based day of the smonth containing d; days 0, 216, 251,
\* 252, 253 give +720, +720, -680, -720, +720.
C1_EquatorialOffset ==
    (Returned("get_timezone_offset") /\ schedule.kind = "Equatorial") =>
        LET d == input.d
            m == SmonthOf(schedule, d)
            D == d - StartOfSmonth(schedule, m) + 1
        IN  /\ result = IF get_smonth_length(schedule, m) = 37 /\ D = 37
                        THEN Minutes(-720)
                        ELSE Minutes(760 - 40 * D)
            /\ (d = 0 => result = Minutes(720))
            /\ (d = 216 => result = Minutes(720))
            /\ (d = 251 => result = Minutes(-680))
            /\ (d = 252 => result = Minutes(-720))
            /\ (d = 253 => result = Minutes(720))

C1_Witness ==
    /\ Returned("get_timezone_offset") /\ schedule.kind = "Equatorial"
    /\ input.d = 252 /\ result = Minutes(-720)

EquatorialLongSmonths == {6, 7, 9, 10, 12, 14, 16}

\* C2: for EquatorialSchedule, is_smol_smonth(idx) is true exactly for idx in
\* {6,7,9,10,12,14,16}, and get_smonth_length(idx) is 37 exactly then, else 36.
C2_EquatorialLongSmonths ==
    /\ (Returned("is_smol_smonth") /\ schedule.kind = "Equatorial") =>
           (result <=> input.d \in EquatorialLongSmonths)
    /\ (Returned("get_smonth_length") /\ schedule.kind = "Equatorial") =>
           result = IF input.d \in EquatorialLongSmonths THEN 37 ELSE 36

C2_Witness ==
    /\ Returned("get_smonth_length") /\ schedule.kind = "Equatorial"
    /\ input.d = 6 /\ result = 37

\* a date the bound schedule accepts
ValidDate(date) ==
    /\ date.year = year
    /\ date.day >= 1
    /\ date.day <= get_smonth_length(schedule, date.smonth)

\* C3: for either schedule variant, date_from_day(day_of_year(date)) = date
\* for every date of the bound year with 1 <= day <= get_smonth_length(smonth),
\* and day_of_year(date_from_day(d)) = Some(d) for every d in [0, 668).
C3_RoundTrip ==
    /\ (Returned("day_of_year") /\ ValidDate(input.date)) =>
           /\ result.some
           /\ date_from_day(Self, result.val) = input.date
    /\ Returned("date_from_day") =>
           day_of_year(Self, result) = Some(input.d)

C3_Witness ==
    /\ Returned("date_from_day") /\ schedule.kind = "Equatorial"
    /\ input.d = 252 /\ result = SmoitalDate(TestYear, 6, 37)
    /\ day_of_year(Self, result) = Some(252)

Range(seq) == {seq[i] : i \in 1..Len(seq)}

\* C4: HeuristicSchedule::new(2030, 0.0) freezes the Smol days
\* {216, 253, 326, 363, 436, 509}; in [0, 667] get_timezone_offset is -12:00
\* on exactly those days, +00:40 on day 215 and +00:00 on days 217 and 254.
C4_HeuristicZero ==
    (schedule.kind = "Heuristic" /\ schedule.natural_tz_start = 0) =>
        /\ schedule.smol_dates = <<216, 253, 326, 363, 436, 509>>
        /\ Returned("get_timezone_offset") =>
               /\ result = Minutes(-720)
                      <=> input.d \in {216, 253, 326, 363, 436, 509}
               /\ (input.d = 215 => result = Minutes(40))
               /\ (input.d \in {217, 254} => result = Minutes(0))

C4_Witness ==
    /\ schedule.kind = "Heuristic" /\ schedule.natural_tz_start = 0
    /\ Returned("get_timezone_offset")
    /\ input.d = 217 /\ result = Minutes(0)

\* the multiple of 40 nearest to natural_tz_min + 85/60 minutes
NearestMultipleOf40(natural_tz_min) ==
    40 * (CHOOSE k \in -40..40 :
              2 * Abs(12 * natural_tz_min + 17 - 480 * k) < 480)

\* the value of (-720, 720] that differs from x by a multiple of 1440
InHalfOpenDay(x) == CHOOSE v \in -719..720 : (v - x) % 1440 = 0

\* C5: HeuristicSchedule.get_timezone_offset(d), d in [0, 667]: -720 minutes
\* when d is a frozen Smol day; otherwise wrap_24hr(start_offset - 40*(d - k))
\* minutes, k the number of frozen Smol days below d and start_offset =
\* wrap_24hr(round_40min(natural_tz_min + 85/60)), a value in (-720, 720].
C5_HeuristicOffset ==
    (Returned("get_timezone_offset") /\ schedule.kind = "Heuristic") =>
        LET d == input.d
            smol == Range(schedule.smol_dates)
            k == Cardinality({x \in smol : x < d})
            start_offset ==
                InHalfOpenDay(NearestMultipleOf40(schedule.natural_tz_start))
        IN  IF d \in smol
            THEN result = Minutes(-720)
            ELSE /\ result = Minutes(InHalfOpenDay(start_offset - 40 * (d - k)))
                 /\ ~result.panic
                 /\ -720 * 60 < result.secs /\ result.secs <= 720 * 60

C5_Witness ==
    /\ Returned("get_timezone_offset") /\ schedule.kind = "Heuristic"
    /\ schedule.natural_tz_start = -725
    /\ input.d = 300 /\ ~Contains(schedule.smol_dates, 300)
    /\ SmolCount(schedule, 300) > 0
    /\ result.secs <= 720 * 60 /\ result.secs > -720 * 60

\* C6: day_of_year(date) is None exactly when date.year is not the bound
\* year, or date.day = 0, or date.day exceeds get_smonth_length(date.smonth);
\* otherwise it is Some(lengths of smonths 0..date.smonth-1, plus day - 1).
\* Under EquatorialSchedule smonth 0 day 40 gives None, smonth 6 day 37
\* gives Some(252).
C6_DayOfYear ==
    Returned("day_of_year") =>
        LET date == input.date
            rejected ==
                \/ date.year # year
                \/ date.day = 0
                \/ date.day > get_smonth_length(schedule, date.smonth)
        IN  /\ ~result.some <=> rejected
            /\ ~rejected =>
                   result = Some(StartOfSmonth(schedule, date.smonth)
                                 + date.day - 1)
            /\ (schedule.kind = "Equatorial" /\ date.year = year) =>
                   /\ (date.smonth = 0 /\ date.day = 40) => result = None
                   /\ (date.smonth = 6 /\ date.day = 37) => result = Some(252)

C6_Witness ==
    /\ Returned("day_of_year") /\ schedule.kind = "Equatorial"
    /\ input.date = SmoitalDate(TestYear, 0, 40)
    /\ result = None

C8_OffsetsAgree ==
    /\ Returned("calculate_offset") =>
           /\ result = Minutes(760 - 40 * input.date.day)
           /\ (input.date.day = 1 => result = Minutes(720))
           /\ (input.date.day = 37 => result = Minutes(-720))
    /\ (Returned("timezone_offset_for_day") /\ schedule.kind = "Equatorial") =>
           result = calculate_offset(date_from_day(Self, input.d))

C8_Witness ==
    /\ Returned("timezone_offset_for_day") /\ schedule.kind = "Equatorial"
    /\ input.d = 252
    /\ date_from_day(Self, 252).day = 37
    /\ result = Minutes(-720)

\* C9: for either schedule variant and every d in [0, 667],
\* timezone_offset_for_day(d) is UTC-12:00 exactly when date_from_day(d) is
\* day 37 (is_smol_day) of a smonth whose get_smonth_length is 37.
C9_SmolDayIs37th ==
    Returned("timezone_offset_for_day") =>
        LET date == date_from_day(Self, input.d)
        IN  result = Minutes(-720)
                <=> /\ is_smol_day(date)
                    /\ get_smonth_length(schedule, date.smonth) = 37

\* C10: get_timezone_offset(d), d in [0, 667], of either variant runs to its
\* end: its loops terminate, day_of_year - current_day_sum does not
\* underflow, no unwrap panics, and the offset returned lies in
\* [-12:00, +12:00].
C10_NoUnderflow == pc = "eq_scan" => current_day_sum <= input.d

C10_NoPanic == pc # "panic"

C10_InRange ==
    Returned("get_timezone_offset") =>
        -12 * 3600 <= result.secs /\ result.secs <= 12 * 3600

C10_Total ==
    /\ [](C10_NoUnderflow /\ C10_NoPanic /\ C10_InRange)
    /\ [](op = "get_timezone_offset" => <>(pc = "done"))

C10_Witness ==
    /\ Returned("get_timezone_offset") /\ schedule.kind = "Heuristic"
    /\ schedule.natural_tz_start = -1500
    /\ input.d = 667 /\ stage = 2 /\ ~result.panic

\* the offset, in minutes, of rule i (day i - 1) of the table
OffMin(i) == rules[i].off_min

IsSmolRule(i) == OffMin(i) = -720

Congruent(a, b) == (a - b) % 1440 = 0

\* C11: along d = 0, 1, ..., 667, for both variants: when d and d+1 are both
\* not Smol days, offset(d+1) is offset(d) - 40 minutes modulo 1440; when s
\* is a Smol day (offset -12:00), offset(s+1) is offset(s-1) - 40 minutes
\* modulo 1440.  Heuristic(0): day 215 is +00:40 and day 217 +00:00;
\* Equatorial: day 251 is -680 and day 253 +720.
C11_Drift ==
    LET len == Len(rules)
    IN  /\ (len >= 2 /\ ~IsSmolRule(len) /\ ~IsSmolRule(len - 1)) =>
               Congruent(OffMin(len), OffMin(len - 1) - 40)
        /\ (len >= 2 /\ IsSmolRule(len - 1)) => len >= 3
        /\ (len >= 3 /\ IsSmolRule(len - 1)) =>
               Congruent(OffMin(len), OffMin(len - 2) - 40)
        /\ len >= 1 => rules[len].day = len - 1
        /\ (len = 218 /\ schedule.kind = "Heuristic"
                /\ schedule.natural_tz_start = 0) =>
               OffMin(216) = 40 /\ IsSmolRule(217) /\ OffMin(218) = 0
        /\ (len = 254 /\ schedule.kind = "Equatorial") =>
               OffMin(252) = -680 /\ IsSmolRule(253) /\ OffMin(254) = 720

C11_Witness ==
    /\ pc = "done" /\ op = "generate_year_rules"
    /\ Len(rules) = DaysInYear
    /\ schedule.kind = "Heuristic" /\ schedule.natural_tz_start = 0
    /\ OffMin(216) = 40 /\ IsSmolRule(217) /\ OffMin(218) = 0

\* the six spacing values the claim names
SixSpacings == <<1, 2, 4, 5, 7, 9>>

\* C12: for every natural_tz_min (positive, zero, negative; the fractional
\* part of step 3 keeps the sign of its argument) HeuristicSchedule::new
\* derives first_long_smonth in 2..6 and freezes exactly the six indices
\* 36*(first_long_smonth + spacing[n]) + n, n = 0..5, spacing = (1,2,4,5,7,9):
\* strictly increasing, all in [0, 667], none discarded as negative, the
\* seventh spacing value 11 never used.
C12_SixSmolDays ==
    LET f == new_first_long_smonth
        sd == schedule.smol_dates
    IN  /\ pc \in {"new_loop", "done"} =>
               /\ f \in 2..6
               \* a negative argument of fract() gives a fraction <= 0, so
               \* first_long_smonth is at most floor(4.51) = 4
               /\ 12 * input.d + 17 + 240 < 0 => f <= 4
               /\ 12 * input.d + 17 + 240 >= 0 => f >= 4
        /\ pc = "new_loop" =>
               \* every iteration so far pushed its index, and iteration
               \* n reads spacings[n], n <= 5
               /\ Len(new_smol_dates) = new_n
               /\ new_n <= 6
        /\ pc = "done" =>
               /\ Len(sd) = 6
               /\ \A i \in 1..6 : sd[i] = 36 * (f + SixSpacings[i]) + (i - 1)
               /\ \A i \in 1..5 : sd[i] < sd[i + 1]
               /\ \A i \in 1..6 : 0 <= sd[i] /\ sd[i] <= 667
               /\ \A k \in 0..6 : 36 * (f + 11) + k \notin Range(sd)
               /\ schedule = HeuristicNew(year, input.d)

C12_Witness ==
    /\ pc = "done" /\ op = "new"
    /\ input.d = -61
    /\ new_first_long_smonth = 2
    /\ schedule.smol_dates = <<108, 145, 218, 255, 328, 401>>

====
